---- MODULE Spec2Model ----
(***************************************************************************)
(* Model of zod-express-middleware (src/src/index.ts): the eight request   *)
(* handlers built by processRequest, validateRequest and their single-part *)
(* variants, the error responder sendErrors, and the zod schemas the tests *)
(* pass to them.  One handler instance is constructed in Init and is then  *)
(* invoked on a bounded number of requests; the multi-part handlers are    *)
(* modelled block by block (params, query, body, final decision).          *)
(***************************************************************************)
EXTENDS Integers, Sequences, FiniteSets, TLC

\* Number of requests passed through the handler instance.
MaxRequests == 2

\* Keys a request part may carry; "K" and "X" stand for RequestBodyKey and
\* SomeOtherRandomValue of the tests.
Keys == {"K", "X"}

\* Runtime types of the values stored under a key.
Types == {"string", "number"}

\* The request fields, in the order their blocks appear in the source.
Fields == <<"params", "query", "body">>

FieldSet == {"params", "query", "body"}

\* A request part: an object with some of the keys; as in the tests, "K" holds
\* a string or a number and "X" a string.
Values ==
  {v \in UNION {[ks -> Types] : ks \in SUBSET Keys} :
     "X" \in DOMAIN v => v["X"] = "string"}

Requests == [params : Values, query : Values, body : Values]

\* A schema slot that was not supplied (schemas.params is undefined).
undefined == [kind |-> "undefined"]

\* z.object({ key: z.string() }) for each key.
ZodSchemas == {[kind |-> "ZodObject", key |-> k] : k \in Keys}

\* z.object({ K: z.string() }).transform(...) with a transform that throws: a
\* ZodEffects, which the process* functions accept next to a ZodSchema.
ThrowingSchemas == {[kind |-> "ZodEffects", key |-> "K"]}

MultiFns == {"processRequest", "validateRequest"}

SingleFns == {"processRequestBody", "processRequestParams", "processRequestQuery",
              "validateRequestBody", "validateRequestParams", "validateRequestQuery"}

\* The tag an error item carries for a request field.
ErrorType(field) ==
  CASE field = "params" -> "Params"
    [] field = "query" -> "Query"
    [] field = "body" -> "Body"

\* schema.safeParse(value) of z.object({ key: z.string() }): succeeds when the
\* key holds a string, and then returns the object without its unknown keys;
\* fails with a ZodError of one invalid_type issue otherwise.
safeParse(s, value) ==
  IF s.key \in DOMAIN value /\ value[s.key] = "string"
  THEN [success |-> TRUE, data |-> [k \in {s.key} |-> value[k]]]
  ELSE [success |-> FALSE,
        error |-> {[code |-> "invalid_type", expected |-> "string",
                    received |-> IF s.key \in DOMAIN value THEN value[s.key]
                                 ELSE "undefined",
                    path |-> <<s.key>>]}]

\* schema.safeParse(value) throws instead of returning a result: zod runs the
\* transform of a ZodEffects once the inner object schema has accepted the
\* value, and does not catch what the transform throws.
throws(s, value) == s.kind = "ZodEffects" /\ safeParse(s, value).success

\* The request field a single-part handler parses.
FieldOf(f) ==
  CASE f \in {"processRequestParams", "validateRequestParams"} -> "params"
    [] f \in {"processRequestQuery", "validateRequestQuery"} -> "query"
    [] f \in {"processRequestBody", "validateRequestBody"} -> "body"

\* A fresh response object: no status set, nothing sent, no method called.
\* calls lists the method calls in order; a send call carries whether its
\* payload is an array or a plain object.
mockResponse == [status |-> <<>>, sent |-> <<>>, calls |-> <<>>]

\* sendErrors with the items sent last to first.
sendErrors_reversed(errs, r) ==
  [status |-> Append(r.status, 400),
   sent |-> Append(r.sent,
                   [i \in 1..Len(errs) |->
                      [type |-> errs[Len(errs) + 1 - i].type,
                       errors |-> errs[Len(errs) + 1 - i].errors]]),
   calls |-> r.calls \o <<[method |-> "status", code |-> 400],
                          [method |-> "send", payload |-> "array"]>>]

\* res.status(400).send(errors.map(...)).
sendErrors(errs, r) ==
  [status |-> Append(r.status, 400),
   sent |-> Append(r.sent,
                   [i \in 1..Len(errs) |-> [type |-> errs[i].type,
                                            errors |-> errs[i].errors]]),
   calls |-> r.calls \o <<[method |-> "status", code |-> 400],
                          [method |-> "send", payload |-> "array"]>>]

\* res.status(400).send({ type: error.type, errors: error.errors }).
sendError(error, r) ==
  [status |-> Append(r.status, 400),
   sent |-> Append(r.sent, [type |-> error.type, errors |-> error.errors]),
   calls |-> r.calls \o <<[method |-> "status", code |-> 400],
                          [method |-> "send", payload |-> "object"]>>]

VARIABLES
  fn,         \* which exported function built the handler
  schemas,    \* the schemas closed over by a multi-part handler
  schema,     \* the schema closed over by a single-part handler
  pc,         \* position of the running invocation
  req,        \* the request object
  res,        \* the response object: status codes set and payloads sent
  nextCalls,  \* the argument lists next was called with
  seenByNext, \* the request fields at each call of next
  errors,     \* the local errors array of a multi-part handler
  req0,       \* the request fields when the invocation started
  parseCalls, \* the safeParse calls of this invocation: field and input
  writes,     \* the request fields assigned by this invocation
  served,     \* number of invocations started on this handler
  history,    \* how the earlier invocations on this handler ended
  parked      \* the other in-flight invocation, while this one runs

vars == <<fn, schemas, schema, pc, req, res, nextCalls, seenByNext, errors, req0,
          parseCalls, writes, served, history, parked>>

handlerVars == <<fn, schemas, schema>>

emptyRequest == [params |-> <<>>, query |-> <<>>, body |-> <<>>]

noSchemas == [params |-> undefined, query |-> undefined, body |-> undefined]

\* The state of one invocation: the handler's position, its arguments req,
\* res and next, and its local errors array.  idleContext is an invocation
\* that has not been started.
idleContext ==
  [pc |-> "idle", req |-> emptyRequest, res |-> mockResponse,
   nextCalls |-> <<>>, seenByNext |-> <<>>, errors |-> <<>>,
   req0 |-> emptyRequest, parseCalls |-> <<>>, writes |-> <<>>]

Init ==
  /\ fn \in MultiFns \cup SingleFns
  /\ schemas \in [FieldSet -> ZodSchemas \cup {undefined}]
  /\ schema \in ZodSchemas \cup {undefined}
  /\ fn \in MultiFns => schema = undefined
  /\ fn \in SingleFns => schemas = noSchemas /\ schema # undefined
  /\ pc = "idle"
  /\ req = emptyRequest
  /\ req0 = emptyRequest
  /\ res = mockResponse
  /\ nextCalls = <<>>
  /\ seenByNext = <<>>
  /\ errors = <<>>
  /\ parseCalls = <<>>
  /\ writes = <<>>
  /\ served = 0
  /\ history = <<>>
  /\ parked = idleContext

\* How the invocation that has just ended left the pipeline.
outcome ==
  IF Len(nextCalls) > 0 THEN "next"
  ELSE IF Len(res.sent) > 0 THEN "400"
  ELSE "thrown"

\* Invoke with the errors array declared in the factory instead of in the
\* handler: the array is shared by all the invocations and never emptied.
Invoke_sharedErrors ==
  /\ pc \in {"idle", "done", "thrown"}
  /\ served < MaxRequests
  /\ \E r \in Requests : req' = r /\ req0' = r
  /\ res' = mockResponse
  /\ nextCalls' = <<>>
  /\ seenByNext' = <<>>
  /\ errors' = errors
  /\ parseCalls' = <<>>
  /\ writes' = <<>>
  /\ served' = served + 1
  /\ history' = IF pc = "idle" THEN history ELSE Append(history, outcome)
  /\ pc' = IF fn \in MultiFns THEN "params" ELSE "handle"
  /\ UNCHANGED <<handlerVars, parked>>

\* Express calls the handler with a request, a fresh response and next.
Invoke ==
  /\ pc \in {"idle", "done", "thrown"}
  /\ served < MaxRequests
  /\ \E r \in Requests : req' = r /\ req0' = r
  /\ res' = mockResponse
  /\ nextCalls' = <<>>
  /\ seenByNext' = <<>>
  /\ errors' = <<>>
  /\ parseCalls' = <<>>
  /\ writes' = <<>>
  /\ served' = served + 1
  /\ history' = IF pc = "idle" THEN history ELSE Append(history, outcome)
  /\ pc' = IF fn \in MultiFns THEN "params" ELSE "handle"
  /\ UNCHANGED <<handlerVars, parked>>

\* processRequest_params assigning the parse output to req.query instead of
\* req.params.
processRequest_params_writesQuery ==
  /\ fn = "processRequest"
  /\ pc = "params"
  /\ schemas.params # undefined => ~throws(schemas.params, req.params)
  /\ IF schemas.params # undefined
     THEN LET parsed == safeParse(schemas.params, req.params) IN
          /\ parseCalls' = Append(parseCalls, [field |-> "params", input |-> req.params])
          /\ IF parsed.success
             THEN /\ req' = [req EXCEPT !.query = parsed.data]
                  /\ writes' = Append(writes, "query")
                  /\ errors' = errors
             ELSE /\ errors' = Append(errors, [type |-> "Params", errors |-> parsed.error])
                  /\ UNCHANGED <<req, writes>>
     ELSE UNCHANGED <<req, errors, parseCalls, writes>>
  /\ pc' = "query"
  /\ UNCHANGED <<handlerVars, res, nextCalls, seenByNext, req0, served, history, parked>>

\* processRequest_params with the assignment moved out of the success test:
\* on failure the field receives parsed.data, which is undefined.
processRequest_params_assignAlways ==
  /\ fn = "processRequest"
  /\ pc = "params"
  /\ schemas.params # undefined => ~throws(schemas.params, req.params)
  /\ IF schemas.params # undefined
     THEN LET parsed == safeParse(schemas.params, req.params) IN
          /\ parseCalls' = Append(parseCalls, [field |-> "params", input |-> req.params])
          /\ writes' = Append(writes, "params")
          /\ IF parsed.success
             THEN /\ req' = [req EXCEPT !.params = parsed.data]
                  /\ errors' = errors
             ELSE /\ req' = [req EXCEPT !.params = <<>>]
                  /\ errors' = Append(errors, [type |-> "Params", errors |-> parsed.error])
     ELSE UNCHANGED <<req, errors, parseCalls, writes>>
  /\ pc' = "query"
  /\ UNCHANGED <<handlerVars, res, nextCalls, seenByNext, req0, served, history, parked>>

\* processRequest_params with a default for a missing schema: without a
\* params schema the field is reset to the empty object.
processRequest_params_defaulting ==
  /\ fn = "processRequest"
  /\ pc = "params"
  /\ schemas.params # undefined => ~throws(schemas.params, req.params)
  /\ IF schemas.params # undefined
     THEN LET parsed == safeParse(schemas.params, req.params) IN
          /\ parseCalls' = Append(parseCalls, [field |-> "params", input |-> req.params])
          /\ IF parsed.success
             THEN /\ req' = [req EXCEPT !.params = parsed.data]
                  /\ writes' = Append(writes, "params")
                  /\ errors' = errors
             ELSE /\ errors' = Append(errors, [type |-> "Params", errors |-> parsed.error])
                  /\ UNCHANGED <<req, writes>>
     ELSE /\ req' = [req EXCEPT !.params = <<>>]
          /\ writes' = Append(writes, "params")
          /\ UNCHANGED <<errors, parseCalls>>
  /\ pc' = "query"
  /\ UNCHANGED <<handlerVars, res, nextCalls, seenByNext, req0, served, history, parked>>

\* processRequest, the params block: parse req.params when a schema was given,
\* overwrite the field on success, push an error item on failure.
processRequest_params ==
  /\ fn = "processRequest"
  /\ pc = "params"
  /\ schemas.params # undefined => ~throws(schemas.params, req.params)
  /\ IF schemas.params # undefined
     THEN LET parsed == safeParse(schemas.params, req.params) IN
          /\ parseCalls' = Append(parseCalls, [field |-> "params", input |-> req.params])
          /\ IF parsed.success
             THEN /\ req' = [req EXCEPT !.params = parsed.data]
                  /\ writes' = Append(writes, "params")
                  /\ errors' = errors
             ELSE /\ errors' = Append(errors, [type |-> "Params", errors |-> parsed.error])
                  /\ UNCHANGED <<req, writes>>
     ELSE UNCHANGED <<req, errors, parseCalls, writes>>
  /\ pc' = "query"
  /\ UNCHANGED <<handlerVars, res, nextCalls, seenByNext, req0, served, history, parked>>

\* processRequest, the query block: parse req.query when a schema was given,
\* overwrite the field on success, push an error item on failure.
processRequest_query ==
  /\ fn = "processRequest"
  /\ pc = "query"
  /\ schemas.query # undefined => ~throws(schemas.query, req.query)
  /\ IF schemas.query # undefined
     THEN LET parsed == safeParse(schemas.query, req.query) IN
          /\ parseCalls' = Append(parseCalls, [field |-> "query", input |-> req.query])
          /\ IF parsed.success
             THEN /\ req' = [req EXCEPT !.query = parsed.data]
                  /\ writes' = Append(writes, "query")
                  /\ errors' = errors
             ELSE /\ errors' = Append(errors, [type |-> "Query", errors |-> parsed.error])
                  /\ UNCHANGED <<req, writes>>
     ELSE UNCHANGED <<req, errors, parseCalls, writes>>
  /\ pc' = "body"
  /\ UNCHANGED <<handlerVars, res, nextCalls, seenByNext, req0, served, history, parked>>

\* processRequest_body parsing req.query instead of req.body.
processRequest_body_parsesQuery ==
  /\ fn = "processRequest"
  /\ pc = "body"
  /\ schemas.body # undefined => ~throws(schemas.body, req.body)
  /\ IF schemas.body # undefined
     THEN LET parsed == safeParse(schemas.body, req.query) IN
          /\ parseCalls' = Append(parseCalls, [field |-> "body", input |-> req.query])
          /\ IF parsed.success
             THEN /\ req' = [req EXCEPT !.body = parsed.data]
                  /\ writes' = Append(writes, "body")
                  /\ errors' = errors
             ELSE /\ errors' = Append(errors, [type |-> "Body", errors |-> parsed.error])
                  /\ UNCHANGED <<req, writes>>
     ELSE UNCHANGED <<req, errors, parseCalls, writes>>
  /\ pc' = "respond"
  /\ UNCHANGED <<handlerVars, res, nextCalls, seenByNext, req0, served, history, parked>>

\* processRequest_body overwriting the field only while no error was recorded.
processRequest_body_writeIfNoErrors ==
  /\ fn = "processRequest"
  /\ pc = "body"
  /\ schemas.body # undefined => ~throws(schemas.body, req.body)
  /\ IF schemas.body # undefined
     THEN LET parsed == safeParse(schemas.body, req.body) IN
          /\ parseCalls' = Append(parseCalls, [field |-> "body", input |-> req.body])
          /\ IF parsed.success
             THEN /\ IF Len(errors) = 0
                     THEN /\ req' = [req EXCEPT !.body = parsed.data]
                          /\ writes' = Append(writes, "body")
                     ELSE UNCHANGED <<req, writes>>
                  /\ errors' = errors
             ELSE /\ errors' = Append(errors, [type |-> "Body", errors |-> parsed.error])
                  /\ UNCHANGED <<req, writes>>
     ELSE UNCHANGED <<req, errors, parseCalls, writes>>
  /\ pc' = "respond"
  /\ UNCHANGED <<handlerVars, res, nextCalls, seenByNext, req0, served, history, parked>>

\* processRequest_body putting its error item at the front of the list
\* (unshift instead of push).
processRequest_body_unshift ==
  /\ fn = "processRequest"
  /\ pc = "body"
  /\ schemas.body # undefined => ~throws(schemas.body, req.body)
  /\ IF schemas.body # undefined
     THEN LET parsed == safeParse(schemas.body, req.body) IN
          /\ parseCalls' = Append(parseCalls, [field |-> "body", input |-> req.body])
          /\ IF parsed.success
             THEN /\ req' = [req EXCEPT !.body = parsed.data]
                  /\ writes' = Append(writes, "body")
                  /\ errors' = errors
             ELSE /\ errors' = <<[type |-> "Body", errors |-> parsed.error]>> \o errors
                  /\ UNCHANGED <<req, writes>>
     ELSE UNCHANGED <<req, errors, parseCalls, writes>>
  /\ pc' = "respond"
  /\ UNCHANGED <<handlerVars, res, nextCalls, seenByNext, req0, served, history, parked>>

\* processRequest, the body block: parse req.body when a schema was given,
\* overwrite the field on success, push an error item on failure.
processRequest_body ==
  /\ fn = "processRequest"
  /\ pc = "body"
  /\ schemas.body # undefined => ~throws(schemas.body, req.body)
  /\ IF schemas.body # undefined
     THEN LET parsed == safeParse(schemas.body, req.body) IN
          /\ parseCalls' = Append(parseCalls, [field |-> "body", input |-> req.body])
          /\ IF parsed.success
             THEN /\ req' = [req EXCEPT !.body = parsed.data]
                  /\ writes' = Append(writes, "body")
                  /\ errors' = errors
             ELSE /\ errors' = Append(errors, [type |-> "Body", errors |-> parsed.error])
                  /\ UNCHANGED <<req, writes>>
     ELSE UNCHANGED <<req, errors, parseCalls, writes>>
  /\ pc' = "respond"
  /\ UNCHANGED <<handlerVars, res, nextCalls, seenByNext, req0, served, history, parked>>

\* processRequest_respond without the final return next(): the handler
\* returns without a word when no error was recorded.
processRequest_respond_noNext ==
  /\ fn = "processRequest"
  /\ pc = "respond"
  /\ IF Len(errors) > 0
     THEN res' = sendErrors(errors, res)
     ELSE res' = res
  /\ nextCalls' = nextCalls /\ seenByNext' = seenByNext
  /\ pc' = "done"
  /\ UNCHANGED <<handlerVars, req, errors, req0, parseCalls, writes, served, history, parked>>

\* processRequest_respond testing errors.length > 1: a single error is not
\* sent.
processRequest_respond_offByOne ==
  /\ fn = "processRequest"
  /\ pc = "respond"
  /\ IF Len(errors) > 1
     THEN res' = sendErrors(errors, res) /\ nextCalls' = nextCalls /\ seenByNext' = seenByNext
     ELSE nextCalls' = Append(nextCalls, <<>>) /\ seenByNext' = Append(seenByNext, req) /\ res' = res
  /\ pc' = "done"
  /\ UNCHANGED <<handlerVars, req, errors, req0, parseCalls, writes, served, history, parked>>

\* processRequest_respond without the return in front of sendErrors: next is
\* called after the errors were sent.
processRequest_respond_noReturn ==
  /\ fn = "processRequest"
  /\ pc = "respond"
  /\ IF Len(errors) > 0
     THEN res' = sendErrors(errors, res)
     ELSE res' = res
  /\ nextCalls' = Append(nextCalls, <<>>) /\ seenByNext' = Append(seenByNext, req)
  /\ pc' = "done"
  /\ UNCHANGED <<handlerVars, req, errors, req0, parseCalls, writes, served, history, parked>>

\* processRequest, the final decision: send the errors or call next.
processRequest_respond ==
  /\ fn = "processRequest"
  /\ pc = "respond"
  /\ IF Len(errors) > 0
     THEN res' = sendErrors(errors, res) /\ nextCalls' = nextCalls /\ seenByNext' = seenByNext
     ELSE nextCalls' = Append(nextCalls, <<>>) /\ seenByNext' = Append(seenByNext, req) /\ res' = res
  /\ pc' = "done"
  /\ UNCHANGED <<handlerVars, req, errors, req0, parseCalls, writes, served, history, parked>>

\* validateRequest, the params block: parse req.params when a schema was given and
\* push an error item on failure.
validateRequest_params ==
  /\ fn = "validateRequest"
  /\ pc = "params"
  /\ schemas.params # undefined => ~throws(schemas.params, req.params)
  /\ IF schemas.params # undefined
     THEN LET parsed == safeParse(schemas.params, req.params) IN
          /\ parseCalls' = Append(parseCalls, [field |-> "params", input |-> req.params])
          /\ IF ~parsed.success
             THEN errors' = Append(errors, [type |-> "Params", errors |-> parsed.error])
             ELSE errors' = errors
     ELSE UNCHANGED <<errors, parseCalls>>
  /\ pc' = "query"
  /\ UNCHANGED <<handlerVars, req, res, nextCalls, seenByNext, req0, writes, served, history, parked>>

\* validateRequest_query skipped once an error was recorded (fail-fast).
validateRequest_query_failFast ==
  /\ fn = "validateRequest"
  /\ pc = "query"
  /\ schemas.query # undefined => ~throws(schemas.query, req.query)
  /\ IF schemas.query # undefined /\ Len(errors) = 0
     THEN LET parsed == safeParse(schemas.query, req.query) IN
          /\ parseCalls' = Append(parseCalls, [field |-> "query", input |-> req.query])
          /\ IF ~parsed.success
             THEN errors' = Append(errors, [type |-> "Query", errors |-> parsed.error])
             ELSE errors' = errors
     ELSE UNCHANGED <<errors, parseCalls>>
  /\ pc' = "body"
  /\ UNCHANGED <<handlerVars, req, res, nextCalls, seenByNext, req0, writes, served, history, parked>>

\* validateRequest, the query block: parse req.query when a schema was given and
\* push an error item on failure.
validateRequest_query ==
  /\ fn = "validateRequest"
  /\ pc = "query"
  /\ schemas.query # undefined => ~throws(schemas.query, req.query)
  /\ IF schemas.query # undefined
     THEN LET parsed == safeParse(schemas.query, req.query) IN
          /\ parseCalls' = Append(parseCalls, [field |-> "query", input |-> req.query])
          /\ IF ~parsed.success
             THEN errors' = Append(errors, [type |-> "Query", errors |-> parsed.error])
             ELSE errors' = errors
     ELSE UNCHANGED <<errors, parseCalls>>
  /\ pc' = "body"
  /\ UNCHANGED <<handlerVars, req, res, nextCalls, seenByNext, req0, writes, served, history, parked>>

\* validateRequest_body with the success branch of processRequest: the field is
\* overwritten with the parse output.
validateRequest_body_assigns ==
  /\ fn = "validateRequest"
  /\ pc = "body"
  /\ schemas.body # undefined => ~throws(schemas.body, req.body)
  /\ IF schemas.body # undefined
     THEN LET parsed == safeParse(schemas.body, req.body) IN
          /\ parseCalls' = Append(parseCalls, [field |-> "body", input |-> req.body])
          /\ IF ~parsed.success
             THEN /\ errors' = Append(errors, [type |-> "Body", errors |-> parsed.error])
                  /\ UNCHANGED <<req, writes>>
             ELSE /\ req' = [req EXCEPT !.body = parsed.data]
                  /\ writes' = Append(writes, "body")
                  /\ errors' = errors
     ELSE UNCHANGED <<req, errors, parseCalls, writes>>
  /\ pc' = "respond"
  /\ UNCHANGED <<handlerVars, res, nextCalls, seenByNext, req0, served, history, parked>>

\* validateRequest_body with the success branch of validateRequestBody: next
\* is called as soon as the body parses.
validateRequest_body_callsNext ==
  /\ fn = "validateRequest"
  /\ pc = "body"
  /\ schemas.body # undefined => ~throws(schemas.body, req.body)
  /\ IF schemas.body # undefined
     THEN LET parsed == safeParse(schemas.body, req.body) IN
          /\ parseCalls' = Append(parseCalls, [field |-> "body", input |-> req.body])
          /\ IF ~parsed.success
             THEN /\ errors' = Append(errors, [type |-> "Body", errors |-> parsed.error])
                  /\ nextCalls' = nextCalls /\ seenByNext' = seenByNext
             ELSE /\ errors' = errors
                  /\ nextCalls' = Append(nextCalls, <<>>) /\ seenByNext' = Append(seenByNext, req)
     ELSE UNCHANGED <<errors, parseCalls, nextCalls, seenByNext>>
  /\ pc' = "respond"
  /\ UNCHANGED <<handlerVars, req, res, req0, writes, served, history, parked>>

\* validateRequest, the body block: parse req.body when a schema was given and
\* push an error item on failure.
validateRequest_body ==
  /\ fn = "validateRequest"
  /\ pc = "body"
  /\ schemas.body # undefined => ~throws(schemas.body, req.body)
  /\ IF schemas.body # undefined
     THEN LET parsed == safeParse(schemas.body, req.body) IN
          /\ parseCalls' = Append(parseCalls, [field |-> "body", input |-> req.body])
          /\ IF ~parsed.success
             THEN errors' = Append(errors, [type |-> "Body", errors |-> parsed.error])
             ELSE errors' = errors
     ELSE UNCHANGED <<errors, parseCalls>>
  /\ pc' = "respond"
  /\ UNCHANGED <<handlerVars, req, res, nextCalls, seenByNext, req0, writes, served, history, parked>>

\* validateRequest_respond handing the first ZodError to next instead of
\* sending the errors: next(errors[0].errors).
validateRequest_respond_nextWithError ==
  /\ fn = "validateRequest"
  /\ pc = "respond"
  /\ IF Len(errors) > 0
     THEN nextCalls' = Append(nextCalls, <<errors[1].errors>>) /\ seenByNext' = Append(seenByNext, req)
     ELSE nextCalls' = Append(nextCalls, <<>>) /\ seenByNext' = Append(seenByNext, req)
  /\ res' = res
  /\ pc' = "done"
  /\ UNCHANGED <<handlerVars, req, errors, req0, parseCalls, writes, served, history, parked>>

\* validateRequest_respond testing errors.length >= 0: the errors are always
\* sent.
validateRequest_respond_alwaysSends ==
  /\ fn = "validateRequest"
  /\ pc = "respond"
  /\ IF Len(errors) >= 0
     THEN res' = sendErrors(errors, res) /\ nextCalls' = nextCalls /\ seenByNext' = seenByNext
     ELSE nextCalls' = Append(nextCalls, <<>>) /\ seenByNext' = Append(seenByNext, req) /\ res' = res
  /\ pc' = "done"
  /\ UNCHANGED <<handlerVars, req, errors, req0, parseCalls, writes, served, history, parked>>

\* validateRequest, the final decision: send the errors or call next.
validateRequest_respond ==
  /\ fn = "validateRequest"
  /\ pc = "respond"
  /\ IF Len(errors) > 0
     THEN res' = sendErrors(errors, res) /\ nextCalls' = nextCalls /\ seenByNext' = seenByNext
     ELSE nextCalls' = Append(nextCalls, <<>>) /\ seenByNext' = Append(seenByNext, req) /\ res' = res
  /\ pc' = "done"
  /\ UNCHANGED <<handlerVars, req, errors, req0, parseCalls, writes, served, history, parked>>

\* processRequestBody with the two statements of the success branch swapped:
\* next() runs before req.body is assigned.
processRequestBody_nextBeforeAssign ==
  /\ fn = "processRequestBody"
  /\ pc = "handle"
  /\ ~throws(schema, req.body)
  /\ LET parsed == safeParse(schema, req.body) IN
     /\ parseCalls' = Append(parseCalls, [field |-> "body", input |-> req.body])
     /\ IF parsed.success
        THEN /\ nextCalls' = Append(nextCalls, <<>>)
             /\ seenByNext' = Append(seenByNext, req)
             /\ req' = [req EXCEPT !.body = parsed.data]
             /\ writes' = Append(writes, "body")
             /\ res' = res
        ELSE /\ res' = sendErrors(<<[type |-> "Body", errors |-> parsed.error]>>, res)
             /\ UNCHANGED <<req, writes, nextCalls, seenByNext>>
  /\ pc' = "done"
  /\ UNCHANGED <<handlerVars, errors, req0, served, history, parked>>

\* processRequestBody without the return in front of sendErrors and without
\* the else: next is called after the errors were sent.
processRequestBody_fallsThrough ==
  /\ fn = "processRequestBody"
  /\ pc = "handle"
  /\ ~throws(schema, req.body)
  /\ LET parsed == safeParse(schema, req.body) IN
     /\ parseCalls' = Append(parseCalls, [field |-> "body", input |-> req.body])
     /\ IF parsed.success
        THEN /\ req' = [req EXCEPT !.body = parsed.data]
             /\ writes' = Append(writes, "body")
             /\ res' = res
        ELSE /\ res' = sendErrors(<<[type |-> "Body", errors |-> parsed.error]>>, res)
             /\ UNCHANGED <<req, writes>>
     /\ nextCalls' = Append(nextCalls, <<>>) /\ seenByNext' = Append(seenByNext, req')
  /\ pc' = "done"
  /\ UNCHANGED <<handlerVars, errors, req0, served, history, parked>>

\* The handler built by processRequestBody.
processRequestBody ==
  /\ fn = "processRequestBody"
  /\ pc = "handle"
  /\ ~throws(schema, req.body)
  /\ LET parsed == safeParse(schema, req.body) IN
     /\ parseCalls' = Append(parseCalls, [field |-> "body", input |-> req.body])
     /\ IF parsed.success
        THEN /\ req' = [req EXCEPT !.body = parsed.data]
             /\ writes' = Append(writes, "body")
             /\ nextCalls' = Append(nextCalls, <<>>) /\ seenByNext' = Append(seenByNext, req')
             /\ res' = res
        ELSE /\ res' = sendErrors(<<[type |-> "Body", errors |-> parsed.error]>>, res)
             /\ UNCHANGED <<req, writes, nextCalls, seenByNext>>
  /\ pc' = "done"
  /\ UNCHANGED <<handlerVars, errors, req0, served, history, parked>>

\* processRequestParams copied from processRequestBody with the assignment
\* left on req.body.
processRequestParams_assignsBody ==
  /\ fn = "processRequestParams"
  /\ pc = "handle"
  /\ ~throws(schema, req.params)
  /\ LET parsed == safeParse(schema, req.params) IN
     /\ parseCalls' = Append(parseCalls, [field |-> "params", input |-> req.params])
     /\ IF parsed.success
        THEN /\ req' = [req EXCEPT !.body = parsed.data]
             /\ writes' = Append(writes, "body")
             /\ nextCalls' = Append(nextCalls, <<>>) /\ seenByNext' = Append(seenByNext, req')
             /\ res' = res
        ELSE /\ res' = sendErrors(<<[type |-> "Params", errors |-> parsed.error]>>, res)
             /\ UNCHANGED <<req, writes, nextCalls, seenByNext>>
  /\ pc' = "done"
  /\ UNCHANGED <<handlerVars, errors, req0, served, history, parked>>

\* The handler built by processRequestParams.
processRequestParams ==
  /\ fn = "processRequestParams"
  /\ pc = "handle"
  /\ ~throws(schema, req.params)
  /\ LET parsed == safeParse(schema, req.params) IN
     /\ parseCalls' = Append(parseCalls, [field |-> "params", input |-> req.params])
     /\ IF parsed.success
        THEN /\ req' = [req EXCEPT !.params = parsed.data]
             /\ writes' = Append(writes, "params")
             /\ nextCalls' = Append(nextCalls, <<>>) /\ seenByNext' = Append(seenByNext, req')
             /\ res' = res
        ELSE /\ res' = sendErrors(<<[type |-> "Params", errors |-> parsed.error]>>, res)
             /\ UNCHANGED <<req, writes, nextCalls, seenByNext>>
  /\ pc' = "done"
  /\ UNCHANGED <<handlerVars, errors, req0, served, history, parked>>

\* processRequestQuery copied from processRequestBody with the tag left as
\* 'Body'.
processRequestQuery_bodyTag ==
  /\ fn = "processRequestQuery"
  /\ pc = "handle"
  /\ ~throws(schema, req.query)
  /\ LET parsed == safeParse(schema, req.query) IN
     /\ parseCalls' = Append(parseCalls, [field |-> "query", input |-> req.query])
     /\ IF parsed.success
        THEN /\ req' = [req EXCEPT !.query = parsed.data]
             /\ writes' = Append(writes, "query")
             /\ nextCalls' = Append(nextCalls, <<>>) /\ seenByNext' = Append(seenByNext, req')
             /\ res' = res
        ELSE /\ res' = sendErrors(<<[type |-> "Body", errors |-> parsed.error]>>, res)
             /\ UNCHANGED <<req, writes, nextCalls, seenByNext>>
  /\ pc' = "done"
  /\ UNCHANGED <<handlerVars, errors, req0, served, history, parked>>

\* The handler built by processRequestQuery.
processRequestQuery ==
  /\ fn = "processRequestQuery"
  /\ pc = "handle"
  /\ ~throws(schema, req.query)
  /\ LET parsed == safeParse(schema, req.query) IN
     /\ parseCalls' = Append(parseCalls, [field |-> "query", input |-> req.query])
     /\ IF parsed.success
        THEN /\ req' = [req EXCEPT !.query = parsed.data]
             /\ writes' = Append(writes, "query")
             /\ nextCalls' = Append(nextCalls, <<>>) /\ seenByNext' = Append(seenByNext, req')
             /\ res' = res
        ELSE /\ res' = sendErrors(<<[type |-> "Query", errors |-> parsed.error]>>, res)
             /\ UNCHANGED <<req, writes, nextCalls, seenByNext>>
  /\ pc' = "done"
  /\ UNCHANGED <<handlerVars, errors, req0, served, history, parked>>

\* validateRequestBody passing the parse output to next: next(parsed.data).
validateRequestBody_nextWithData ==
  /\ fn = "validateRequestBody"
  /\ pc = "handle"
  /\ ~throws(schema, req.body)
  /\ LET parsed == safeParse(schema, req.body) IN
     /\ parseCalls' = Append(parseCalls, [field |-> "body", input |-> req.body])
     /\ IF parsed.success
        THEN nextCalls' = Append(nextCalls, <<parsed.data>>) /\ seenByNext' = Append(seenByNext, req) /\ res' = res
        ELSE /\ res' = sendErrors(<<[type |-> "Body", errors |-> parsed.error]>>, res)
             /\ nextCalls' = nextCalls /\ seenByNext' = seenByNext
  /\ pc' = "done"
  /\ UNCHANGED <<handlerVars, req, errors, req0, writes, served, history, parked>>

\* The handler built by validateRequestBody.
validateRequestBody ==
  /\ fn = "validateRequestBody"
  /\ pc = "handle"
  /\ ~throws(schema, req.body)
  /\ LET parsed == safeParse(schema, req.body) IN
     /\ parseCalls' = Append(parseCalls, [field |-> "body", input |-> req.body])
     /\ IF parsed.success
        THEN nextCalls' = Append(nextCalls, <<>>) /\ seenByNext' = Append(seenByNext, req) /\ res' = res
        ELSE /\ res' = sendErrors(<<[type |-> "Body", errors |-> parsed.error]>>, res)
             /\ nextCalls' = nextCalls /\ seenByNext' = seenByNext
  /\ pc' = "done"
  /\ UNCHANGED <<handlerVars, req, errors, req0, writes, served, history, parked>>

\* validateRequestParams sending a flattened error, the paths of the issues,
\* instead of the ZodError.
validateRequestParams_flattens ==
  /\ fn = "validateRequestParams"
  /\ pc = "handle"
  /\ ~throws(schema, req.params)
  /\ LET parsed == safeParse(schema, req.params) IN
     /\ parseCalls' = Append(parseCalls, [field |-> "params", input |-> req.params])
     /\ IF parsed.success
        THEN nextCalls' = Append(nextCalls, <<>>) /\ seenByNext' = Append(seenByNext, req) /\ res' = res
        ELSE /\ res' = sendErrors(<<[type |-> "Params",
                                     errors |-> {i.path : i \in parsed.error}]>>, res)
             /\ nextCalls' = nextCalls /\ seenByNext' = seenByNext
  /\ pc' = "done"
  /\ UNCHANGED <<handlerVars, req, errors, req0, writes, served, history, parked>>

\* The handler built by validateRequestParams.
validateRequestParams ==
  /\ fn = "validateRequestParams"
  /\ pc = "handle"
  /\ ~throws(schema, req.params)
  /\ LET parsed == safeParse(schema, req.params) IN
     /\ parseCalls' = Append(parseCalls, [field |-> "params", input |-> req.params])
     /\ IF parsed.success
        THEN nextCalls' = Append(nextCalls, <<>>) /\ seenByNext' = Append(seenByNext, req) /\ res' = res
        ELSE /\ res' = sendErrors(<<[type |-> "Params", errors |-> parsed.error]>>, res)
             /\ nextCalls' = nextCalls /\ seenByNext' = seenByNext
  /\ pc' = "done"
  /\ UNCHANGED <<handlerVars, req, errors, req0, writes, served, history, parked>>

\* validateRequestQuery with the success branch of processRequestQuery: the
\* field is overwritten with the parse output.
validateRequestQuery_assigns ==
  /\ fn = "validateRequestQuery"
  /\ pc = "handle"
  /\ ~throws(schema, req.query)
  /\ LET parsed == safeParse(schema, req.query) IN
     /\ parseCalls' = Append(parseCalls, [field |-> "query", input |-> req.query])
     /\ IF parsed.success
        THEN /\ req' = [req EXCEPT !.query = parsed.data]
             /\ writes' = Append(writes, "query")
             /\ nextCalls' = Append(nextCalls, <<>>) /\ seenByNext' = Append(seenByNext, req')
             /\ res' = res
        ELSE /\ res' = sendErrors(<<[type |-> "Query", errors |-> parsed.error]>>, res)
             /\ UNCHANGED <<req, writes, nextCalls, seenByNext>>
  /\ pc' = "done"
  /\ UNCHANGED <<handlerVars, errors, req0, served, history, parked>>

\* The handler built by validateRequestQuery.
validateRequestQuery ==
  /\ fn = "validateRequestQuery"
  /\ pc = "handle"
  /\ ~throws(schema, req.query)
  /\ LET parsed == safeParse(schema, req.query) IN
     /\ parseCalls' = Append(parseCalls, [field |-> "query", input |-> req.query])
     /\ IF parsed.success
        THEN nextCalls' = Append(nextCalls, <<>>) /\ seenByNext' = Append(seenByNext, req) /\ res' = res
        ELSE /\ res' = sendErrors(<<[type |-> "Query", errors |-> parsed.error]>>, res)
             /\ nextCalls' = nextCalls /\ seenByNext' = seenByNext
  /\ pc' = "done"
  /\ UNCHANGED <<handlerVars, req, errors, req0, writes, served, history, parked>>

Next ==
  \/ Invoke
  \/ processRequest_params
  \/ processRequest_query
  \/ processRequest_body
  \/ processRequest_respond
  \/ validateRequest_params
  \/ validateRequest_query
  \/ validateRequest_body
  \/ validateRequest_respond
  \/ processRequestBody
  \/ processRequestParams
  \/ processRequestQuery
  \/ validateRequestBody
  \/ validateRequestParams
  \/ validateRequestQuery

Spec == Init /\ [][Next]_vars

TypeOK ==
  /\ fn \in MultiFns \cup SingleFns
  /\ pc \in {"idle", "params", "query", "body", "respond", "handle", "done",
            "thrown"}
  /\ req \in Requests
  /\ req0 \in Requests
  /\ served \in 0..MaxRequests
  /\ Len(errors) <= 3
  /\ Len(nextCalls) <= 1

(***************************************************************************)
(* Schemas whose safeParse throws: a third specification, in which the      *)
(* handler is built with at least one ZodEffects whose transform throws.    *)
(***************************************************************************)

InitThrows ==
  /\ fn \in MultiFns \cup SingleFns
  /\ schemas \in [FieldSet -> ZodSchemas \cup ThrowingSchemas \cup {undefined}]
  /\ schema \in ZodSchemas \cup ThrowingSchemas \cup {undefined}
  /\ fn \in MultiFns => schema = undefined
  /\ fn \in SingleFns => schemas = noSchemas /\ schema # undefined
  /\ \/ schema \in ThrowingSchemas
     \/ \E f \in FieldSet : schemas[f] \in ThrowingSchemas
  /\ pc = "idle"
  /\ req = emptyRequest
  /\ req0 = emptyRequest
  /\ res = mockResponse
  /\ nextCalls = <<>>
  /\ seenByNext = <<>>
  /\ errors = <<>>
  /\ parseCalls = <<>>
  /\ writes = <<>>
  /\ served = 0
  /\ history = <<>>
  /\ parked = idleContext

\* The field the running handler is about to parse and the schema it uses.
currentField == IF fn \in MultiFns THEN pc ELSE FieldOf(fn)

currentSchema == IF fn \in MultiFns THEN schemas[pc] ELSE schema

\* A handler that holds a parse call at its current position.
atParse ==
  \/ fn \in MultiFns /\ pc \in {"params", "query", "body"}
  \/ fn \in SingleFns /\ pc = "handle"

\* safeParse_throws with the call wrapped in try/catch: the handler forwards
\* what it caught to next and returns.
safeParse_throws_caught ==
  /\ atParse
  /\ currentSchema # undefined
  /\ throws(currentSchema, req[currentField])
  /\ parseCalls' = Append(parseCalls, [field |-> currentField,
                                       input |-> req[currentField]])
  /\ nextCalls' = Append(nextCalls, <<"Error">>) /\ seenByNext' = Append(seenByNext, req)
  /\ pc' = "done"
  /\ UNCHANGED <<handlerVars, req, res, errors, req0, writes, served, history, parked>>

\* The safeParse call of the running handler throws.  No handler has a
\* try/catch, so the exception leaves the handler at once: nothing after the
\* call is executed.
safeParse_throws ==
  /\ atParse
  /\ currentSchema # undefined
  /\ throws(currentSchema, req[currentField])
  /\ parseCalls' = Append(parseCalls, [field |-> currentField,
                                       input |-> req[currentField]])
  /\ pc' = "thrown"
  /\ UNCHANGED <<handlerVars, req, res, nextCalls, seenByNext, errors, req0, writes, served,
                 history, parked>>

NextThrows ==
  \/ Next
  \/ safeParse_throws

SpecThrows == InitThrows /\ [][NextThrows]_vars

(***************************************************************************)
(* The error responders called directly, as the README shows for sendError: *)
(* a second specification, whose initial states draw the error items.       *)
(***************************************************************************)

\* Longest list of error items handed to sendErrors.
MaxItems == 2

\* The ZodErrors the schemas produce.
ZodErrors ==
  {safeParse(sv[1], sv[2]).error :
     sv \in {x \in ZodSchemas \X Values : ~safeParse(x[1], x[2]).success}}

ErrorListItem == [type : {"Params", "Query", "Body"}, errors : ZodErrors]

InitSend ==
  /\ fn \in {"sendErrors", "sendError"}
  /\ errors \in UNION {[1..n -> ErrorListItem] : n \in 0..MaxItems}
  /\ fn = "sendError" => Len(errors) = 1
  /\ schemas = noSchemas
  /\ schema = undefined
  /\ pc = "call"
  /\ req = emptyRequest
  /\ req0 = emptyRequest
  /\ res = mockResponse
  /\ nextCalls = <<>>
  /\ seenByNext = <<>>
  /\ parseCalls = <<>>
  /\ writes = <<>>
  /\ served = 0
  /\ history = <<>>
  /\ parked = idleContext

\* A caller invokes sendErrors(errors, res).
call_sendErrors ==
  /\ fn = "sendErrors"
  /\ pc = "call"
  /\ res' = sendErrors(errors, res)
  /\ pc' = "done"
  /\ UNCHANGED <<handlerVars, req, nextCalls, seenByNext, errors, req0, parseCalls, writes,
                 served, history, parked>>

\* A caller invokes sendError(error, res) with the one item of errors.
call_sendError ==
  /\ fn = "sendError"
  /\ pc = "call"
  /\ res' = sendError(errors[1], res)
  /\ pc' = "done"
  /\ UNCHANGED <<handlerVars, req, nextCalls, seenByNext, errors, req0, parseCalls, writes,
                 served, history, parked>>

NextSend ==
  \/ call_sendErrors
  \/ call_sendError

SpecSend == InitSend /\ [][NextSend]_vars

(***************************************************************************)
(* Two requests in flight on one handler: a fourth specification, in which  *)
(* the server may leave an invocation where it is and run the other one.    *)
(***************************************************************************)

\* The requests drawn when two invocations are interleaved: each field
\* either passes the schema on "K" with an unknown key to strip, or fails it.
SomeValues == {[k \in {"K", "X"} |-> "string"], [k \in {"K"} |-> "number"]}

SomeRequests == [params : SomeValues, query : SomeValues, body : SomeValues]

\* Express calls the handler with one of SomeRequests.
InvokeSome ==
  /\ pc \in {"idle", "done", "thrown"}
  /\ served < MaxRequests
  /\ \E r \in SomeRequests : req' = r /\ req0' = r
  /\ res' = mockResponse
  /\ nextCalls' = <<>>
  /\ seenByNext' = <<>>
  /\ errors' = <<>>
  /\ parseCalls' = <<>>
  /\ writes' = <<>>
  /\ served' = served + 1
  /\ history' = IF pc = "idle" THEN history ELSE Append(history, outcome)
  /\ pc' = IF fn \in MultiFns THEN "params" ELSE "handle"
  /\ UNCHANGED <<handlerVars, parked>>

\* The running invocation as a context.
running ==
  [pc |-> pc, req |-> req, res |-> res, nextCalls |-> nextCalls,
   seenByNext |-> seenByNext, errors |-> errors, req0 |-> req0,
   parseCalls |-> parseCalls, writes |-> writes]

\* Switch with the errors array declared in the factory: the two invocations
\* push to one array, which stays as it is when the other invocation runs.
Switch_sharedErrors ==
  /\ pc # "idle" \/ parked.pc # "idle"
  /\ parked' = running
  /\ pc' = parked.pc
  /\ req' = parked.req
  /\ res' = parked.res
  /\ nextCalls' = parked.nextCalls
  /\ seenByNext' = parked.seenByNext
  /\ errors' = errors
  /\ req0' = parked.req0
  /\ parseCalls' = parked.parseCalls
  /\ writes' = parked.writes
  /\ UNCHANGED <<handlerVars, served, history>>

\* The server leaves the running invocation where it is and runs the other
\* one.  req, res, next and the errors array belong to the invocation; the
\* schemas belong to the handler and are shared.
Switch ==
  /\ pc # "idle" \/ parked.pc # "idle"
  /\ parked' = running
  /\ pc' = parked.pc
  /\ req' = parked.req
  /\ res' = parked.res
  /\ nextCalls' = parked.nextCalls
  /\ seenByNext' = parked.seenByNext
  /\ errors' = parked.errors
  /\ req0' = parked.req0
  /\ parseCalls' = parked.parseCalls
  /\ writes' = parked.writes
  /\ UNCHANGED <<handlerVars, served, history>>

NextInterleave ==
  \/ InvokeSome
  \/ Switch
  \/ processRequest_params
  \/ processRequest_query
  \/ processRequest_body
  \/ processRequest_respond
  \/ validateRequest_params
  \/ validateRequest_query
  \/ validateRequest_body
  \/ validateRequest_respond
  \/ processRequestBody
  \/ processRequestParams
  \/ processRequestQuery
  \/ validateRequestBody
  \/ validateRequestParams
  \/ validateRequestQuery

SpecInterleave == Init /\ [][NextInterleave]_vars

(***************************************************************************)
(* Run to completion: a fifth specification.  A handler is synchronous, so  *)
(* an invocation that can take a step takes it.                             *)
(***************************************************************************)

\* A step of the running handler.
Handle ==
  \/ processRequest_params
  \/ processRequest_query
  \/ processRequest_body
  \/ processRequest_respond
  \/ validateRequest_params
  \/ validateRequest_query
  \/ validateRequest_body
  \/ validateRequest_respond
  \/ processRequestBody
  \/ processRequestParams
  \/ processRequestQuery
  \/ validateRequestBody
  \/ validateRequestParams
  \/ validateRequestQuery

NextLive ==
  \/ InvokeSome
  \/ Handle

SpecLive == Init /\ [][NextLive]_vars /\ WF_vars(Handle)

(***************************************************************************)
(* Vocabulary of the properties.                                           *)
(***************************************************************************)

\* A schema was supplied for the field.
Configured(f) == schemas[f] # undefined

\* The field's schema accepts the value the field had when the invocation
\* started.
Passes(f) == safeParse(schemas[f], req0[f]).success

\* The parse output of the field's value at the start of the invocation.
Output(f) == safeParse(schemas[f], req0[f]).data

\* The fields assigned so far by the invocation.
Written == {writes[i] : i \in 1..Len(writes)}

\* The configured fields, and those of them that fail, in the order Params,
\* Query, Body.
IsConfigured(f) == Configured(f)

IsFailing(f) == Configured(f) /\ ~Passes(f)

ConfiguredFields == SelectSeq(Fields, IsConfigured)

FailingFields == SelectSeq(Fields, IsFailing)

\* The tags of the items of a payload, in order.
Tags(payload) == [i \in 1..Len(payload) |-> payload[i].type]

\* An invocation of a multi-part handler is running or has ended.
MultiInvoked == fn \in MultiFns /\ pc # "idle"

\* A value with a key its schema does not know.
HasUnknownKey(f) == Configured(f) /\ DOMAIN req0[f] # {schemas[f].key}

(***************************************************************************)
(* C1..C10: the multi-part handlers.                                       *)
(***************************************************************************)

\* C1: when every configured part of a validateRequest or processRequest
\* handler parses, the invocation calls next exactly once (once it has ended,
\* not before) and never sets a status nor sends anything.
C1_AllPassNextOnce ==
  (MultiInvoked /\ \A f \in FieldSet : Configured(f) => Passes(f))
    => /\ res = mockResponse
       /\ pc = "done" => nextCalls = << <<>> >>
       /\ pc # "done" => nextCalls = <<>>

C1_Witness ==
  /\ fn = "validateRequest"
  /\ pc = "done"
  /\ \A f \in FieldSet : Configured(f) /\ Passes(f)
  /\ Len(nextCalls) = 1

\* C2: when at least one configured part fails, the invocation of a multi-part
\* handler never calls next and ends having set status 400 once and sent
\* exactly one payload.
C2_AnyFailSends400 ==
  (MultiInvoked /\ \E f \in FieldSet : IsFailing(f))
    => /\ nextCalls = <<>>
       /\ pc = "done" => res.status = <<400>> /\ Len(res.sent) = 1
       /\ pc # "done" => res = mockResponse

C2_Witness ==
  /\ fn = "processRequest"
  /\ pc = "done"
  /\ IsFailing("query")
  /\ Configured("params") /\ Passes("params")
  /\ res.status = <<400>>

\* C3: the payload sent on failure by a multi-part handler has one item per
\* configured failing part and no other item, in the order Params, Query,
\* Body.
C3_PayloadOrder ==
  (fn \in MultiFns /\ pc = "done" /\ Len(FailingFields) > 0)
    => /\ Len(res.sent) = 1
       /\ Tags(res.sent[1]) = [i \in 1..Len(FailingFields) |-> ErrorType(FailingFields[i])]

C3_Witness ==
  /\ fn \in MultiFns
  /\ pc = "done"
  /\ IsFailing("params") /\ IsFailing("body")
  /\ Configured("query") /\ Passes("query")
  /\ Len(res.sent) = 1
  /\ Tags(res.sent[1]) = <<"Params", "Body">>

\* C4: the validate handlers (validateRequest, validateRequestBody,
\* validateRequestQuery, validateRequestParams) never assign a request field:
\* params, query and body keep the values they had when the invocation
\* started, on success and on failure.
C4_ValidateNeverMutates ==
  (fn \in {"validateRequest", "validateRequestBody", "validateRequestQuery",
           "validateRequestParams"} /\ pc # "idle")
    => req = req0 /\ writes = <<>>

C4_Witness ==
  /\ fn = "validateRequest"
  /\ pc = "done"
  /\ Configured("body") /\ Passes("body") /\ HasUnknownKey("body")
  /\ IsFailing("params")
  /\ req.body = req0.body

\* C5: when a processRequest invocation has ended, a field was assigned if and
\* only if its schema was configured and its parse succeeded, whatever
\* happened to the two other parts; a field that was not assigned holds its
\* initial value.
C5_WrittenIffConfiguredAndPassed ==
  (fn = "processRequest" /\ pc = "done")
    => \A f \in FieldSet :
         /\ f \in Written <=> (Configured(f) /\ Passes(f))
         /\ f \notin Written => req[f] = req0[f]

C5_Witness ==
  /\ fn = "processRequest"
  /\ pc = "done"
  /\ IsFailing("params") /\ "params" \notin Written
  /\ ~Configured("query") /\ "query" \notin Written
  /\ Configured("body") /\ Passes("body") /\ "body" \in Written

\* C6: when a processRequest invocation has ended, every configured part that
\* parsed holds the parse output of the value it had at the start (unknown
\* keys stripped).
C6_FieldIsParseOutput ==
  (fn = "processRequest" /\ pc = "done")
    => \A f \in FieldSet : (Configured(f) /\ Passes(f)) => req[f] = Output(f)

C6_Witness ==
  /\ fn = "processRequest"
  /\ pc = "done"
  /\ schemas.body = [kind |-> "ZodObject", key |-> "K"]
  /\ req0.body = [k \in {"K", "X"} |-> "string"]
  /\ req.body = [k \in {"K"} |-> "string"]
  /\ Len(nextCalls) = 1

\* C7: a part without a schema is invisible to a multi-part handler: it is
\* never passed to safeParse, never assigned, keeps its value, and no payload
\* item carries its tag.
C7_UnconfiguredUntouched ==
  MultiInvoked
    => \A f \in FieldSet :
         ~Configured(f)
           => /\ req[f] = req0[f]
              /\ f \notin Written
              /\ \A i \in 1..Len(parseCalls) : parseCalls[i].field # f
              /\ \A i \in 1..Len(res.sent) :
                   \A j \in 1..Len(res.sent[i]) : res.sent[i][j].type # ErrorType(f)

C7_Witness ==
  /\ fn = "processRequest"
  /\ pc = "done"
  /\ ~Configured("params")
  /\ req0.params = [k \in {"K", "X"} |-> IF k = "K" THEN "number" ELSE "string"]
  /\ req.params = req0.params
  /\ Configured("query") /\ "query" \in Written
  /\ IsFailing("body")

\* C8: when a processRequest invocation has ended and one configured part
\* parsed while another configured part failed, the part that parsed was
\* assigned its parse output although status 400 was sent and next was not
\* called, whether it comes before or after the failing part.
C8_PartialMutation ==
  (fn = "processRequest" /\ pc = "done")
    => \A f, g \in FieldSet :
         (Configured(f) /\ Passes(f) /\ IsFailing(g))
           => /\ f \in Written
              /\ req[f] = Output(f)
              /\ res.status = <<400>>
              /\ nextCalls = <<>>

C8_Witness ==
  /\ fn = "processRequest"
  /\ pc = "done"
  /\ IsFailing("query")
  /\ Configured("params") /\ Passes("params") /\ HasUnknownKey("params")
  /\ Configured("body") /\ Passes("body") /\ HasUnknownKey("body")
  /\ req.params # req0.params
  /\ req.body # req0.body
  /\ res.status = <<400>>
  /\ nextCalls = <<>>

\* The fields whose block has been executed when the invocation is at pc.
Checked ==
  CASE pc = "params" -> {}
    [] pc = "query" -> {"params"}
    [] pc = "body" -> {"params", "query"}
    [] OTHER -> FieldSet

IsCheckedConfigured(f) == f \in Checked /\ Configured(f)

IsCheckedFailing(f) == f \in Checked /\ IsFailing(f)

CheckedConfigured == SelectSeq(Fields, IsCheckedConfigured)

CheckedFailing == SelectSeq(Fields, IsCheckedFailing)

\* C9: a multi-part handler parses every configured part, in the order
\* Params, Query, Body, each from the value its field had at the start, and
\* goes on after a failure: after each block the safeParse calls made are
\* those of the configured parts up to that block, the errors recorded are
\* those of all the failing ones among them, processRequest has assigned
\* all the passing ones among them, and the payload sent carries every
\* failure.
C9_AllPartsChecked ==
  MultiInvoked
    => /\ parseCalls = [i \in 1..Len(CheckedConfigured) |->
                          [field |-> CheckedConfigured[i],
                           input |-> req0[CheckedConfigured[i]]]]
       /\ Tags(errors) = [i \in 1..Len(CheckedFailing) |-> ErrorType(CheckedFailing[i])]
       /\ fn = "processRequest"
            => \A f \in Checked : (Configured(f) /\ Passes(f)) => f \in Written
       /\ (pc = "done" /\ Len(errors) > 0)
            => Len(res.sent) = 1 /\ Len(res.sent[1]) = Len(FailingFields)

C9_Witness ==
  /\ fn = "processRequest"
  /\ pc = "done"
  /\ IsFailing("params") /\ IsFailing("query")
  /\ Configured("body") /\ Passes("body") /\ "body" \in Written
  /\ Len(parseCalls) = 3
  /\ Len(res.sent) = 1
  /\ Tags(res.sent[1]) = <<"Params", "Query">>

\* C10: a multi-part handler built without any schema never sends a response,
\* leaves params, query and body as they were, and ends having called next
\* once, for every request.
C10_NoSchemaPassThrough ==
  (MultiInvoked /\ schemas = noSchemas)
    => /\ res = mockResponse
       /\ req = req0
       /\ writes = <<>>
       /\ pc = "done" => nextCalls = << <<>> >>

C10_Witness ==
  /\ fn \in MultiFns
  /\ schemas = noSchemas
  /\ pc = "done"
  /\ req0.body = [k \in {"K", "X"} |-> IF k = "K" THEN "number" ELSE "string"]
  /\ req0.params = <<>>
  /\ Len(nextCalls) = 1

(***************************************************************************)
(* C11..C13: the single-part handlers.                                     *)
(***************************************************************************)

\* An invocation of a single-part handler has ended by returning.
SingleDone == fn \in SingleFns /\ pc = "done"

\* The result of the handler's schema on the value its field had when the
\* invocation started.
SingleParsed == safeParse(schema, req0[FieldOf(fn)])

\* C11: when the schema of a single-part handler for part P rejects the
\* request's P field, the handler sets status 400, sends a one-element list
\* whose item has type P and the parse error, and does not call next.
C11_SingleFailureSendsOneItem ==
  (SingleDone /\ ~SingleParsed.success)
    => /\ res.status = <<400>>
       /\ res.sent = << <<[type |-> ErrorType(FieldOf(fn)),
                           errors |-> SingleParsed.error]>> >>
       /\ nextCalls = <<>>

C11_Witness ==
  /\ fn = "validateRequestParams"
  /\ pc = "done"
  /\ req0.params = [k \in {"K"} |-> "number"]
  /\ schema = [kind |-> "ZodObject", key |-> "K"]
  /\ Len(res.sent) = 1
  /\ Len(res.sent[1]) = 1
  /\ res.sent[1][1].type = "Params"

\* C12: when the schema of a single-part handler accepts the request's field,
\* the handler calls next exactly once, with no argument, and neither sets a
\* status nor sends anything.
C12_SingleSuccessCallsNext ==
  (SingleDone /\ SingleParsed.success)
    => nextCalls = << <<>> >> /\ res = mockResponse

C12_Witness ==
  /\ fn = "validateRequestBody"
  /\ pc = "done"
  /\ SingleParsed.success
  /\ Len(nextCalls) = 1
  /\ res.calls = <<>>

\* C13: a single-part process handler for part P changes the request only in
\* field P and only on success: before it has run the request is as it
\* started; once it has ended, on success field P holds the parse output of
\* its previous value, on failure field P is unchanged, and the two other
\* fields are unchanged in both cases.
C13_SingleProcessFrame ==
  (fn \in {"processRequestBody", "processRequestQuery", "processRequestParams"}
     /\ pc # "idle")
    => /\ \A f \in FieldSet \ {FieldOf(fn)} : req[f] = req0[f] /\ f \notin Written
       /\ pc = "handle" => req = req0
       /\ (pc = "done" /\ SingleParsed.success)
            => req[FieldOf(fn)] = SingleParsed.data /\ writes = <<FieldOf(fn)>>
       /\ (pc = "done" /\ ~SingleParsed.success) => req = req0 /\ writes = <<>>

C13_Witness ==
  /\ fn = "processRequestParams"
  /\ pc = "done"
  /\ schema = [kind |-> "ZodObject", key |-> "K"]
  /\ req0.params = [k \in {"K", "X"} |-> "string"]
  /\ req.params = [k \in {"K"} |-> "string"]
  /\ req0.body = [k \in {"K", "X"} |-> "string"]
  /\ req.body = req0.body
  /\ req.query = req0.query

(***************************************************************************)
(* C14, C15: the error responders.                                         *)
(***************************************************************************)

\* C14: sendErrors(items, res) sets status 400 and then sends one payload, a
\* list as long as items whose i-th entry has exactly the type and the errors
\* of the i-th item, for every list of items (the empty list included).
C14_SendErrorsPayload ==
  (fn = "sendErrors" /\ pc = "done")
    => /\ res.status = <<400>>
       /\ res.calls = <<[method |-> "status", code |-> 400],
                        [method |-> "send", payload |-> "array"]>>
       /\ Len(res.sent) = 1
       /\ Len(res.sent[1]) = Len(errors)
       /\ \A i \in 1..Len(errors) :
            /\ DOMAIN res.sent[1][i] = {"type", "errors"}
            /\ res.sent[1][i].type = errors[i].type
            /\ res.sent[1][i].errors = errors[i].errors

C14_Witness ==
  /\ fn = "sendErrors"
  /\ pc = "done"
  /\ Len(errors) = 2
  /\ errors[1].type = "Query" /\ errors[2].type = "Params"
  /\ errors[1].errors # errors[2].errors
  /\ Tags(res.sent[1]) = <<"Query", "Params">>

\* C15: sendError(item, res) leaves the response as sendErrors([item], res)
\* does: the same status, the same calls and the same payload, the one-element
\* list the middleware send.
C15_SendErrorIsSendErrorsOfOne ==
  (fn = "sendError" /\ pc = "done")
    => /\ res.status = sendErrors(<<errors[1]>>, mockResponse).status
       /\ res.calls = sendErrors(<<errors[1]>>, mockResponse).calls
       /\ res.sent = sendErrors(<<errors[1]>>, mockResponse).sent

(***************************************************************************)
(* C16..C18: all eight handlers.                                           *)
(***************************************************************************)

\* C16: in every state of an invocation of any of the eight handlers, next
\* was called at most once, at most one response was sent, and never both.
C16_NextXorResponse ==
  (fn \in MultiFns \cup SingleFns /\ pc # "idle")
    => /\ Len(nextCalls) <= 1
       /\ Len(res.sent) <= 1
       /\ Len(res.status) <= 1
       /\ Len(nextCalls) + Len(res.sent) <= 1

C16_Witness ==
  /\ fn = "processRequestBody"
  /\ pc = "done"
  /\ Len(res.sent) = 1
  /\ nextCalls = <<>>

\* process or validate, from the handler's name.
ModeOf(f) ==
  IF f \in {"processRequest", "processRequestBody", "processRequestQuery",
            "processRequestParams"}
  THEN "process" ELSE "validate"

\* What a handler of the given mode that checks only field p against schema s
\* leaves behind for request r: the calls of next, the response and the
\* request fields.
OnePartResult(mode, p, s, r) ==
  LET parsed == safeParse(s, r[p]) IN
  IF parsed.success
  THEN [next |-> << <<>> >>,
        res |-> mockResponse,
        req |-> IF mode = "process" THEN [r EXCEPT ![p] = parsed.data] ELSE r]
  ELSE [next |-> <<>>,
        res |-> sendErrors(<<[type |-> ErrorType(p), errors |-> parsed.error]>>,
                           mockResponse),
        req |-> r]

\* What the invocation that has ended left behind.
Result == [next |-> nextCalls, res |-> res, req |-> req]

\* The multi-part handler was given the schema of field p only.
OnlyConfigured(p) == \A f \in FieldSet : Configured(f) <=> f = p

\* C17: a single-part handler for part P with schema s and the multi-part
\* handler of the same mode given only { P: s } end every request in the same
\* way: both leave the calls of next, the status and payload and the request
\* fields that OnePartResult gives for their mode, P, s and the request.
C17_SingleEqualsMultiOfOne ==
  /\ SingleDone
       => Result = OnePartResult(ModeOf(fn), FieldOf(fn), schema, req0)
  /\ (fn \in MultiFns /\ pc = "done")
       => \A p \in FieldSet :
            OnlyConfigured(p)
              => Result = OnePartResult(ModeOf(fn), p, schemas[p], req0)

C17_Witness ==
  /\ fn = "processRequest"
  /\ pc = "done"
  /\ OnlyConfigured("body")
  /\ Passes("body") /\ HasUnknownKey("body")
  /\ req.body # req0.body
  /\ Result = OnePartResult("process", "body", schemas.body, req0)

SchemaFor(f) == IF fn \in MultiFns THEN schemas[f] ELSE schema

\* C19: a safeParse call that throws is not caught by the handler: the
\* invocation ends by the exception, having neither called next nor set a
\* status nor sent anything; an invocation that goes on to its decision or
\* returns has had no safeParse call throw.
C19_ThrowPropagates ==
  /\ pc = "thrown"
       => /\ nextCalls = <<>>
          /\ res = mockResponse
          /\ Len(parseCalls) > 0
          /\ throws(SchemaFor(parseCalls[Len(parseCalls)].field),
                    parseCalls[Len(parseCalls)].input)
  /\ pc \in {"respond", "done"}
       => \A i \in 1..Len(parseCalls) :
            ~throws(SchemaFor(parseCalls[i].field), parseCalls[i].input)

C19_Witness ==
  /\ fn = "processRequest"
  /\ pc = "thrown"
  /\ Len(errors) = 1
  /\ errors[1].type = "Params"
  /\ schemas.body \in ThrowingSchemas
  /\ parseCalls[Len(parseCalls)].field = "body"
  /\ nextCalls = <<>>
  /\ res = mockResponse

\* What a multi-part handler leaves behind for the request it was started
\* on, computed from that request and the handler's schemas alone.
MultiResult ==
  [next |-> IF Len(FailingFields) = 0 THEN << <<>> >> ELSE <<>>,
   res |-> IF Len(FailingFields) = 0 THEN mockResponse
           ELSE sendErrors([i \in 1..Len(FailingFields) |->
                              [type |-> ErrorType(FailingFields[i]),
                               errors |-> safeParse(schemas[FailingFields[i]],
                                                    req0[FailingFields[i]]).error]],
                           mockResponse),
   req |-> [f \in FieldSet |->
              IF ModeOf(fn) = "process" /\ Configured(f) /\ Passes(f)
              THEN Output(f) ELSE req0[f]]]

\* C20: a handler keeps nothing from one invocation to the next: whatever
\* requests it has served before and however they ended, an invocation ends
\* as its own request and the handler's schemas alone determine (next or
\* 400, the payload, the request fields), the errors array holds items of
\* this request only, and the schemas the handler closes over never change.
C20_NoStateAcrossInvocations ==
  /\ (fn \in MultiFns /\ pc = "done")
       => /\ Result = MultiResult
          /\ Tags(errors) = [i \in 1..Len(FailingFields) |->
                               ErrorType(FailingFields[i])]
  /\ SingleDone
       => Result = OnePartResult(ModeOf(fn), FieldOf(fn), schema, req0)
  /\ (fn \in SingleFns /\ pc # "idle") => errors = <<>>

C20_Witness ==
  /\ fn = "validateRequest"
  /\ pc = "done"
  /\ served = 2
  /\ history = <<"400">>
  /\ \A f \in FieldSet : Configured(f) /\ Passes(f)
  /\ errors = <<>>
  /\ nextCalls = << <<>> >>

(***************************************************************************)
(* C21..C24: order of writes and next, validate against process, errors.   *)
(***************************************************************************)

\* The handler parses field f.
HandlerChecks(f) == IF fn \in MultiFns THEN Configured(f) ELSE f = FieldOf(fn)

\* C21: in a process handler (processRequest and the three processRequest*),
\* every assignment of a request field happens before next is called: at the
\* call of next every field the handler parses already holds the parse output
\* of its initial value, and the handler assigns nothing after the call.
C21_WritesBeforeNext ==
  (fn \in MultiFns \cup SingleFns /\ ModeOf(fn) = "process" /\ pc # "idle")
    => /\ Len(seenByNext) = Len(nextCalls)
       /\ \A i \in 1..Len(seenByNext) :
            /\ \A f \in FieldSet :
                 HandlerChecks(f)
                   => seenByNext[i][f] = safeParse(SchemaFor(f), req0[f]).data
            /\ req = seenByNext[i]

C21_Witness ==
  /\ fn = "processRequestBody"
  /\ pc = "done"
  /\ req0.body = [k \in {"K", "X"} |-> "string"]
  /\ schema = [kind |-> "ZodObject", key |-> "K"]
  /\ Len(nextCalls) = 1
  /\ seenByNext = <<req>>
  /\ seenByNext[1].body = [k \in {"K"} |-> "string"]

\* The error items a schema set produces for the request the invocation was
\* started on, whatever the mode of the handler.
ExpectedItems ==
  [i \in 1..Len(FailingFields) |->
     [type |-> ErrorType(FailingFields[i]),
      errors |-> safeParse(schemas[FailingFields[i]], req0[FailingFields[i]]).error]]

\* C22: for the same schemas and the same request validateRequest and
\* processRequest decide alike and send the same thing: each one calls next
\* exactly when no configured part fails and otherwise sends status 400 with
\* the items of ExpectedItems, which does not depend on the mode; only the
\* request fields differ, unchanged after validateRequest and assigned where
\* written after processRequest.
C22_ValidateAndProcessDecideAlike ==
  (fn \in MultiFns /\ pc = "done")
    => /\ errors = ExpectedItems
       /\ Len(ExpectedItems) = 0 => nextCalls = << <<>> >> /\ res = mockResponse
       /\ Len(ExpectedItems) > 0
            => nextCalls = <<>> /\ res = sendErrors(ExpectedItems, mockResponse)
       /\ fn = "validateRequest" => req = req0
       /\ fn = "processRequest" => \A f \in FieldSet : req[f] # req0[f] => f \in Written

C22_Witness ==
  /\ fn = "processRequest"
  /\ pc = "done"
  /\ IsFailing("query")
  /\ Configured("params") /\ Passes("params") /\ HasUnknownKey("params")
  /\ req # req0
  /\ Len(ExpectedItems) = 1
  /\ res = sendErrors(ExpectedItems, mockResponse)

\* C23: in processRequest every part is parsed from the value its own field
\* had when the invocation started: when a block is reached its field is
\* still untouched, every safeParse call got the initial value of its field,
\* and the final request is the one obtained by applying all the writes after
\* the three checks.
C23_WritesDoNotFeedLaterParses ==
  (fn = "processRequest" /\ pc # "idle")
    => /\ pc \in {"params", "query", "body"} => req[pc] = req0[pc]
       /\ \A i \in 1..Len(parseCalls) :
            parseCalls[i].input = req0[parseCalls[i].field]
       /\ \A f \in Written : req[f] = Output(f)
       /\ pc = "done"
            => req = [f \in FieldSet |->
                        IF Configured(f) /\ Passes(f) THEN Output(f) ELSE req0[f]]

C23_Witness ==
  /\ fn = "processRequest"
  /\ pc = "body"
  /\ "params" \in Written /\ "query" \in Written
  /\ req.params # req0.params
  /\ Configured("body") /\ HasUnknownKey("body")
  /\ req.body = req0.body

\* C24: in the payload a handler sends, every item has the tag of a part the
\* handler parses and carries exactly the ZodError that part's schema returns
\* for the part's initial value, not reshaped.
C24_ItemCarriesItsOwnError ==
  (fn \in MultiFns \cup SingleFns /\ pc = "done")
    => \A i \in 1..Len(res.sent) :
         \A j \in 1..Len(res.sent[i]) :
           \E f \in FieldSet :
             /\ HandlerChecks(f)
             /\ res.sent[i][j].type = ErrorType(f)
             /\ res.sent[i][j].errors = safeParse(SchemaFor(f), req0[f]).error

C24_Witness ==
  /\ fn = "validateRequest"
  /\ pc = "done"
  /\ IsFailing("params") /\ IsFailing("body")
  /\ Len(res.sent) = 1
  /\ Len(res.sent[1]) = 2
  /\ res.sent[1][1].errors # res.sent[1][2].errors

(***************************************************************************)
(* C25: interleaved invocations.                                           *)
(***************************************************************************)

\* What the handler leaves behind for a request r when it serves r alone.
AloneResult(r) ==
  IF fn \in SingleFns
  THEN OnePartResult(ModeOf(fn), FieldOf(fn), schema, r)
  ELSE LET failing == SelectSeq(Fields,
                        LAMBDA f : /\ schemas[f] # undefined
                                   /\ ~safeParse(schemas[f], r[f]).success)
           items == [i \in 1..Len(failing) |->
                       [type |-> ErrorType(failing[i]),
                        errors |-> safeParse(schemas[failing[i]], r[failing[i]]).error]]
       IN [next |-> IF Len(failing) = 0 THEN << <<>> >> ELSE <<>>,
           res |-> IF Len(failing) = 0 THEN mockResponse
                   ELSE sendErrors(items, mockResponse),
           req |-> [f \in FieldSet |->
                      IF /\ ModeOf(fn) = "process"
                         /\ schemas[f] # undefined
                         /\ safeParse(schemas[f], r[f]).success
                      THEN safeParse(schemas[f], r[f]).data
                      ELSE r[f]]]

\* Every item of an errors array was produced by the parse of a field of r.
OwnItems(errs, r) ==
  \A i \in 1..Len(errs) :
    \E f \in FieldSet :
      /\ schemas[f] # undefined
      /\ errs[i].type = ErrorType(f)
      /\ errs[i].errors = safeParse(schemas[f], r[f]).error

\* C25: when two invocations on one handler are interleaved, each ends as it
\* would alone: the running one and the one left aside both leave the calls
\* of next, the response and the request fields that their own request gives,
\* and the errors array of each holds only items of its own request.
C25_InterleavingIsInvisible ==
  /\ pc = "done" => Result = AloneResult(req0)
  /\ parked.pc = "done"
       => [next |-> parked.nextCalls, res |-> parked.res, req |-> parked.req]
            = AloneResult(parked.req0)
  /\ OwnItems(errors, req0)
  /\ OwnItems(parked.errors, parked.req0)
  /\ Len(errors) <= Len(parseCalls)
  /\ Len(parked.errors) <= Len(parked.parseCalls)

C25_Witness ==
  /\ fn = "processRequest"
  /\ served = 2
  /\ parked.pc = "body"
  /\ Len(parked.errors) = 2
  /\ pc = "done"
  /\ nextCalls = << <<>> >>
  /\ \A f \in FieldSet : Configured(f)
  /\ req0 # parked.req0
  /\ req # req0

(***************************************************************************)
(* C26: termination.                                                       *)
(***************************************************************************)

\* C26: with schemas whose parse always returns a result, every invocation
\* that was started ends, and when it has ended exactly one of the two
\* outcomes has occurred: next was called once and nothing was sent, or one
\* 400 response was sent and next was not called.
C26_TerminatesWithOneOutcome ==
  /\ [](pc = "done" => \/ Len(nextCalls) = 1 /\ res = mockResponse
                       \/ nextCalls = <<>> /\ res.status = <<400>> /\ Len(res.sent) = 1)
  /\ (pc \in {"params", "query", "body", "respond", "handle"}) ~> (pc = "done")

C26_Witness ==
  /\ pc = "done"
  /\ served = 2
  /\ history = <<"next">>
  /\ nextCalls = <<>>
  /\ res.status = <<400>>
====
